---- MODULE Spec2Model ----
(***************************************************************************)
(* Model of the airport-traffic services: the FlightStats scraper/parser   *)
(* (app/services/fetch/flightstats_fetch.py), the on-disk departure cache  *)
(* in front of it (app/services/departure_cache.py) and the mocked flight  *)
(* movement service (app/services/flights_api.py).                         *)
(*                                                                         *)
(* Representation of Python values.  Every Python/JSON value is a record   *)
(* tagged by its type in field t:                                          *)
(*   Null        None / JSON null                                          *)
(*   Num(n)      an int                                                    *)
(*   Str(s)      a str, s the sequence of its characters                   *)
(*   IsoStr(p)   a str holding the ISO-8601 text of a timestamp, kept by   *)
(*               its parts p (what datetime.isoformat writes and           *)
(*               datetime.fromisoformat reads)                             *)
(*   Dict(d)     a dict, d a record; a key bound to Absent is not there    *)
(*   List(l)     a list                                                    *)
(*   Datetime    a datetime.datetime                                       *)
(* A call that can raise returns [ok |-> TRUE, ...] or                     *)
(* [ok |-> FALSE, err |-> <exception>].                                    *)
(***************************************************************************)
EXTENDS Integers, Sequences, FiniteSets, TLC

VARIABLES
    files,      \* cache directory: file name -> content of the file
    call,       \* the last fetch_departures call: arguments, trace, outcome
    prev,       \* the fetch_departures call before it
    ncalls,     \* number of fetch_departures calls made
    parsed,    \* the last _parse_flight_record call: entry and outcome
    fs,         \* the last fetch_flightstats_departures call
    loaded,     \* the last _load_from_cache call: file content and outcome
    mock        \* the last get_aircraft_movements call

vars == <<files, call, prev, ncalls, parsed, fs, loaded, mock>>

Idle == [t |-> "idle"]

----------------------------------------------------------------------------
(* Python values *)

Absent == [t |-> "absent"]
Null == [t |-> "null"]
Num(n) == [t |-> "num", n |-> n]
Str(s) == [t |-> "str", s |-> s]
IsoStr(p) == [t |-> "isostr", iso |-> p]
Dict(d) == [t |-> "dict", d |-> d]
List(l) == [t |-> "list", l |-> l]

EmptyDict == Dict([none |-> Absent])
EmptyStr == Str(<<>>)

IsStr(v) == v.t \in {"str", "isostr"}
IsDict(v) == v.t = "dict"
IsList(v) == v.t = "list"

\* key in d
Has(v, k) == k \in DOMAIN v.d /\ v.d[k] # Absent

\* d.get(k, dflt)
GetDefault(v, k, dflt) == IF Has(v, k) THEN v.d[k] ELSE dflt

\* d.get(k)
Get(v, k) == GetDefault(v, k, Null)

\* bool(v)
Truthy(v) ==
    CASE v.t = "null" -> FALSE
      [] v.t = "num" -> v.n # 0
      [] v.t = "str" -> v.s # <<>>
      [] v.t = "dict" -> \E k \in DOMAIN v.d : v.d[k] # Absent
      [] v.t = "list" -> v.l # <<>>
      [] OTHER -> TRUE

\* a or b
PyOr(a, b) == IF Truthy(a) THEN a ELSE b

Ok(v) == [ok |-> TRUE, val |-> v]
Raise(e) == [ok |-> FALSE, err |-> e]

\* an exception: its class and what its message names
Err(type, msg) == Raise([type |-> type, msg |-> msg])

----------------------------------------------------------------------------
(* str methods, on character sequences *)

Whitespace == {" ", "\t", "\n"}
Digits == <<"0", "1", "2", "3", "4", "5", "6", "7", "8", "9">>
LowerCase == <<"a", "b", "c", "d", "e", "f", "g", "h", "i", "j", "k", "l", "m",
               "n", "o", "p", "q", "r", "s", "t", "u", "v", "w", "x", "y", "z">>
UpperCase == <<"A", "B", "C", "D", "E", "F", "G", "H", "I", "J", "K", "L", "M",
               "N", "O", "P", "Q", "R", "S", "T", "U", "V", "W", "X", "Y", "Z">>

IsDigit(c) == \E i \in 1..Len(Digits) : Digits[i] = c
DigitVal(c) == (CHOOSE i \in 1..Len(Digits) : Digits[i] = c) - 1

RECURSIVE LStrip(_, _)
LStrip(s, cs) == IF s # <<>> /\ Head(s) \in cs THEN LStrip(Tail(s), cs) ELSE s

RECURSIVE RStrip(_, _)
RStrip(s, cs) ==
    IF s # <<>> /\ s[Len(s)] \in cs THEN RStrip(SubSeq(s, 1, Len(s) - 1), cs) ELSE s

\* s.strip(cs)
StripChars(s, cs) == RStrip(LStrip(s, cs), cs)

\* s.strip()
Strip(s) == StripChars(s, Whitespace)

UpperChar(c) ==
    IF \E i \in 1..Len(LowerCase) : LowerCase[i] = c
    THEN UpperCase[CHOOSE i \in 1..Len(LowerCase) : LowerCase[i] = c]
    ELSE c

\* s.upper()
Upper(s) == [i \in 1..Len(s) |-> UpperChar(s[i])]

\* sep in s
Contains(s, sep) == \E i \in 1..Len(s) : s[i] = sep

\* s.split(sep)
RECURSIVE Split(_, _)
Split(s, sep) ==
    IF ~Contains(s, sep) THEN <<s>>
    ELSE LET i == CHOOSE i \in 1..Len(s) :
                      s[i] = sep /\ \A j \in 1..(i - 1) : s[j] # sep
         IN  <<SubSeq(s, 1, i - 1)>> \o Split(SubSeq(s, i + 1, Len(s)), sep)

\* sep.join(parts)
RECURSIVE Join(_, _)
Join(parts, sep) ==
    IF parts = <<>> THEN <<>>
    ELSE IF Len(parts) = 1 THEN parts[1]
    ELSE parts[1] \o <<sep>> \o Join(Tail(parts), sep)

RECURSIVE DigitsValue(_, _)
DigitsValue(s, acc) ==
    IF s = <<>> THEN acc
    ELSE IF Head(s) = "_" THEN DigitsValue(Tail(s), acc)
    ELSE DigitsValue(Tail(s), 10 * acc + DigitVal(Head(s)))

\* int(s): surrounding whitespace, an optional sign, decimal digits with
\* single underscores between them; anything else is a ValueError.
PyInt(s) ==
    LET Signed(t) == t # <<>> /\ Head(t) \in {"+", "-"}
        WellFormed(body) ==
            /\ body # <<>>
            /\ \A i \in 1..Len(body) : IsDigit(body[i]) \/ body[i] = "_"
            /\ IsDigit(body[1]) /\ IsDigit(body[Len(body)])
            /\ \A i \in 1..(Len(body) - 1) : ~(body[i] = "_" /\ body[i + 1] = "_")
        Value(t, body) ==
            IF ~WellFormed(body) THEN Err("ValueError", "invalid literal for int()")
            ELSE IF Signed(t) /\ Head(t) = "-" THEN Ok(0 - DigitsValue(body, 0))
            ELSE Ok(DigitsValue(body, 0))
        Stripped(t) == Value(t, IF Signed(t) THEN Tail(t) ELSE t)
    IN  Stripped(Strip(s))

----------------------------------------------------------------------------
(* datetime.  The date is kept as its proleptic ordinal (date.toordinal()). *)
(* tz is "" for a naive value and the UTC offset text otherwise.            *)

Datetime(ord, hour, minute, second, microsecond, tz) ==
    [t |-> "datetime", ord |-> ord, hour |-> hour, minute |-> minute,
     second |-> second, microsecond |-> microsecond, tz |-> tz]

\* The parts of an ISO-8601 text: frac is the fractional second in
\* microseconds, -1 when the text has no fractional part; tz is the text's
\* suffix: "", "Z" or an offset such as "+00:00".
IsoParts(ord, hour, minute, second, frac, tz) ==
    [ord |-> ord, hour |-> hour, minute |-> minute, second |-> second,
     frac |-> frac, tz |-> tz]

\* an isoformat that writes whole seconds only
IsoformatNoFraction(dt) ==
    IsoStr(IsoParts(dt.ord, dt.hour, dt.minute, dt.second, -1, dt.tz))

\* datetime.isoformat(): the fraction is written only when it is not zero.
Isoformat(dt) ==
    IsoStr(IsoParts(dt.ord, dt.hour, dt.minute, dt.second,
                    IF dt.microsecond = 0 THEN -1 ELSE dt.microsecond, dt.tz))

\* datetime.fromisoformat(v): TypeError unless v is a str, ValueError unless
\* its text is an ISO timestamp.  The "Z" suffix is the one the code rewrites
\* before parsing because fromisoformat refuses it.
FromIsoformat(v) ==
    IF ~IsStr(v) THEN Err("TypeError", "fromisoformat: argument must be str")
    ELSE IF v.t = "str" THEN Err("ValueError", "Invalid isoformat string")
    ELSE IF v.iso.tz = "Z" THEN Err("ValueError", "Invalid isoformat string")
    ELSE Ok(Datetime(v.iso.ord, v.iso.hour, v.iso.minute, v.iso.second,
                     IF v.iso.frac = -1 THEN 0 ELSE v.iso.frac, v.iso.tz))

\* dt.replace(hour=, minute=, second=0, microsecond=0)
ReplaceTime(dt, hour, minute) ==
    IF hour \notin 0..23 THEN Err("ValueError", "hour must be in 0..23")
    ELSE IF minute \notin 0..59 THEN Err("ValueError", "minute must be in 0..59")
    ELSE Ok(Datetime(dt.ord, hour, minute, 0, 0, dt.tz))

\* a <= b for two naive datetimes
DtLessOrEqual(a, b) ==
    \/ a = b
    \/ a.ord < b.ord
    \/ a.ord = b.ord /\ a.hour < b.hour
    \/ a.ord = b.ord /\ a.hour = b.hour /\ a.minute < b.minute
    \/ a.ord = b.ord /\ a.hour = b.hour /\ a.minute = b.minute /\ a.second < b.second
    \/ /\ a.ord = b.ord /\ a.hour = b.hour /\ a.minute = b.minute
       /\ a.second = b.second /\ a.microsecond < b.microsecond

\* a < b for two naive datetimes
DtLess(a, b) ==
    \/ a.ord < b.ord
    \/ a.ord = b.ord /\ a.hour < b.hour
    \/ a.ord = b.ord /\ a.hour = b.hour /\ a.minute < b.minute
    \/ a.ord = b.ord /\ a.hour = b.hour /\ a.minute = b.minute /\ a.second < b.second
    \/ /\ a.ord = b.ord /\ a.hour = b.hour /\ a.minute = b.minute
       /\ a.second = b.second /\ a.microsecond < b.microsecond

\* date.max.toordinal(): datetime arithmetic past it is an OverflowError
MaxOrdinal == 3652059

\* dt + timedelta(days=n)
AddDays(dt, n) ==
    IF dt.ord + n < 1 \/ dt.ord + n > MaxOrdinal THEN Err("OverflowError", "date value out of range")
    ELSE Ok([dt EXCEPT !.ord = dt.ord + n])

----------------------------------------------------------------------------
(* objects/flight.py *)

RequiredFields ==
    {"departure_airport", "departure_time", "arrival_city", "arrival_time",
     "airline", "flight_number"}

\* FlightRecord(**kwargs): the dataclass __init__ raises TypeError when a
\* field without default is not given; estimated_passengers defaults to None.
FlightRecord(kwargs) ==
    IF ~(RequiredFields \subseteq DOMAIN kwargs)
    THEN Err("TypeError", "missing required positional arguments")
    ELSE Ok([departure_airport |-> kwargs.departure_airport,
             departure_time |-> kwargs.departure_time,
             arrival_city |-> kwargs.arrival_city,
             arrival_time |-> kwargs.arrival_time,
             airline |-> kwargs.airline,
             flight_number |-> kwargs.flight_number,
             estimated_passengers |->
                 IF "estimated_passengers" \in DOMAIN kwargs
                 THEN kwargs.estimated_passengers ELSE Null])

----------------------------------------------------------------------------
(* fetch/flightstats_fetch.py: the flight record parser *)

\* _parse_sort_time(value)
ParseSortTime(value) ==
    IF ~IsStr(value) \/ ~Truthy(value)
    THEN Err("ValueError", "Flight record missing sortTime value")
    ELSE LET normalized ==
                 IF value.t = "isostr" /\ value.iso.tz = "Z"
                 THEN IsoStr([value.iso EXCEPT !.tz = "+00:00"])
                 ELSE value
             p == FromIsoformat(normalized)
         IN  IF ~p.ok THEN p ELSE Ok([p.val EXCEPT !.tz = ""])

\* _compose_arrival_datetime(departure_dt, arrival_payload)
ComposeArrivalDatetime(departure_dt, arrival_payload) ==
    LET \* lines 143-146, arrival_dt being what replace() gave
        Rollover(arrival_dt) ==
            IF ~arrival_dt.ok THEN arrival_dt
            ELSE IF DtLess(arrival_dt.val, departure_dt) THEN AddDays(arrival_dt.val, 1)
            ELSE arrival_dt
        \* lines 138-143, hour and minute being what the two int() gave
        Replace(hour, minute) ==
            IF ~hour.ok \/ ~minute.ok THEN Ok(departure_dt)
            ELSE Rollover(ReplaceTime(departure_dt, hour.val, minute.val))
        FromParts(parts) == Replace(PyInt(parts[1]), PyInt(parts[2]))
        FromText(time_24) ==
            IF ~IsStr(time_24) THEN Ok(departure_dt)
            \* the first part of an ISO text is its date: int() refuses it
            ELSE IF time_24.t = "isostr" THEN Ok(departure_dt)
            ELSE IF ~Contains(time_24.s, ":") THEN Ok(departure_dt)
            ELSE FromParts(Split(time_24.s, ":"))
    IN  IF ~IsDict(arrival_payload) THEN Ok(departure_dt)
        ELSE FromText(Get(arrival_payload, "time24"))

\* v.strip(...) on a value read from the payload: AttributeError unless a str
StripValue(v, cs) ==
    IF v.t # "str" THEN Err("AttributeError", "strip") ELSE Ok(Str(StripChars(v.s, cs)))

\* _parse_flight_record(raw, departure_airport=...)
ParseFlightRecord(raw, departure_airport) ==
    LET departure_dt == ParseSortTime(Get(raw, "sortTime")) IN
    IF ~departure_dt.ok THEN departure_dt
    ELSE LET arrival_dt ==
                 ComposeArrivalDatetime(departure_dt.val, Get(raw, "arrivalTime")) IN
    IF ~arrival_dt.ok THEN arrival_dt
    ELSE LET airport_payload == PyOr(Get(raw, "airport"), EmptyDict)
             carrier_payload == PyOr(Get(raw, "carrier"), EmptyDict)
         IN
    IF ~IsDict(airport_payload) \/ ~IsDict(carrier_payload) THEN Err("AttributeError", "get")
    ELSE LET arrival_city ==
                 PyOr(Get(airport_payload, "city"),
                      PyOr(Get(airport_payload, "name"),
                           PyOr(Get(airport_payload, "fs"), EmptyStr)))
             airline ==
                 PyOr(Get(carrier_payload, "name"),
                      PyOr(Get(carrier_payload, "fs"), EmptyStr))
             carrier_code == StripValue(GetDefault(carrier_payload, "fs", EmptyStr), Whitespace)
             flight_number ==
                 StripValue(GetDefault(carrier_payload, "flightNumber", EmptyStr), Whitespace)
         IN
    IF ~carrier_code.ok THEN carrier_code
    ELSE IF ~flight_number.ok THEN flight_number
    ELSE LET combined_identifier ==
                 Str(Join(SelectSeq(<<carrier_code.val.s, flight_number.val.s>>,
                                    LAMBDA part : part # <<>>), " "))
             url == IF Truthy(combined_identifier) THEN Ok(EmptyStr)
                    ELSE StripValue(GetDefault(raw, "url", EmptyStr), {"/"})
         IN
    IF ~url.ok THEN url
    ELSE FlightRecord(
             [departure_airport |-> departure_airport,
              departure_time |-> departure_dt.val,
              arrival_city |-> arrival_city,
              arrival_time |-> arrival_dt.val,
              airline |-> airline,
              flight_number |->
                  PyOr(combined_identifier,
                       PyOr(url.val, Str(<<"U", "n", "k", "n", "o", "w", "n">>))),
              estimated_passengers |-> Null])

----------------------------------------------------------------------------
(* fetch/flightstats_fetch.py: the request pipeline *)

_FLIGHTS_PATH == <<"props", "initialState", "flightTracker", "route", "flights">>

\* a _validate_query whose hour range is off by one at the top
ValidateQueryHour24(month, day, hour) ==
    IF ~(1 <= month /\ month <= 12) THEN Err("ValueError", "month must be between 1 and 12")
    ELSE IF ~(1 <= day /\ day <= 31) THEN Err("ValueError", "day must be between 1 and 31")
    ELSE IF ~(0 <= hour /\ hour <= 24) THEN Err("ValueError", "hour must be between 0 and 23")
    ELSE Ok(Null)

\* _validate_query(query)
ValidateQuery(month, day, hour) ==
    IF ~(1 <= month /\ month <= 12) THEN Err("ValueError", "month must be between 1 and 12")
    ELSE IF ~(1 <= day /\ day <= 31) THEN Err("ValueError", "day must be between 1 and 31")
    ELSE IF ~(0 <= hour /\ hour <= 23) THEN Err("ValueError", "hour must be between 0 and 23")
    ELSE Ok(Null)

\* _http_get(url, ...): the upstream's answer is the environment's.  An
\* unreachable host and a non-success status are two different errors.
HttpGet(response) ==
    CASE response.net = "unreachable" -> Err("NetworkError", "Unable to reach FlightStats")
      [] response.net = "status" -> Err("NetworkError", "request failed with status")
      [] OTHER -> Ok(response.html)

\* _extract_next_data(html): the pattern finds the blob or not; json.loads
\* parses it or raises.
ExtractNextData(html) ==
    CASE html.kind = "nomarker" -> Err("ValueError", "Could not locate FlightStats payload")
      [] html.kind = "badjson" -> Err("JSONDecodeError", "embedded payload")
      [] OTHER -> Ok(html.json)

\* a _walk_path that reads each segment with .get(): None where one is missing
RECURSIVE WalkPathLenient(_, _)
WalkPathLenient(current, path) ==
    IF path = <<>> THEN Ok(current)
    ELSE IF ~IsDict(current) \/ ~Has(current, Head(path)) THEN Ok(Null)
    ELSE WalkPathLenient(current.d[Head(path)], Tail(path))

\* _walk_path(root, path)
RECURSIVE WalkPath(_, _)
WalkPath(current, path) ==
    IF path = <<>> THEN Ok(current)
    ELSE IF ~IsDict(current) \/ ~Has(current, Head(path))
         THEN Err("KeyError", Head(path))
    ELSE WalkPath(current.d[Head(path)], Tail(path))

\* a loop that leaves at the first entry whose parsing raises
RECURSIVE ParseEntriesStopAtFailure(_, _, _)
ParseEntriesStopAtFailure(entries, airport, records) ==
    IF entries = <<>> THEN records
    ELSE IF ~IsDict(Head(entries))
         THEN ParseEntriesStopAtFailure(Tail(entries), airport, records)
    ELSE LET r == ParseFlightRecord(Head(entries), airport) IN
         IF r.ok THEN ParseEntriesStopAtFailure(Tail(entries), airport, Append(records, r.val))
         ELSE records

\* the loop of fetch_flightstats_departures over flights_payload
RECURSIVE ParseEntries(_, _, _)
ParseEntries(entries, airport, records) ==
    LET \* r is what _parse_flight_record returned or raised
        Parsed(r) ==
            IF r.ok THEN ParseEntries(Tail(entries), airport, Append(records, r.val))
            ELSE ParseEntries(Tail(entries), airport, records)
    IN  IF entries = <<>> THEN records
        ELSE IF ~IsDict(Head(entries)) THEN ParseEntries(Tail(entries), airport, records)
        ELSE Parsed(ParseFlightRecord(Head(entries), airport))

\* fetch_flightstats_departures(year=, month=, day=, hour=, airport=):
\* out is what the call returns or raises, http the requests it sent.
FetchFlightstatsDepartures(year, month, day, hour, airport, response) ==
    LET valid == ValidateQuery(month, day, hour) IN
    IF ~valid.ok THEN [out |-> valid, http |-> 0]
    ELSE LET html == HttpGet(response) IN
    IF ~html.ok THEN [out |-> html, http |-> 1]
    ELSE LET payload == ExtractNextData(html.val) IN
    IF ~payload.ok THEN [out |-> payload, http |-> 1]
    ELSE LET flights_payload == WalkPath(payload.val, _FLIGHTS_PATH) IN
    IF ~flights_payload.ok THEN [out |-> flights_payload, http |-> 1]
    ELSE IF ~IsList(flights_payload.val)
         THEN [out |-> Err("TypeError", "Unexpected flights payload"), http |-> 1]
    ELSE [out |-> Ok(ParseEntries(flights_payload.val.l, Str(airport), <<>>)),
          http |-> 1]

----------------------------------------------------------------------------
(* departure_cache.py.  A cache file is absent, or it exists and is one of: *)
(* unreadable (open raises OSError), undecodable (its bytes are not UTF-8),  *)
(* notjson (its text is no JSON document: json.load raises JSONDecodeError), *)
(* json (its text is the JSON document doc).                                 *)

NoFile == [kind |-> "absent"]
JsonFile(doc) == [kind |-> "json", doc |-> doc]

\* path.exists()
Exists(content) == content.kind # "absent"

\* str(n), n >= 0
RECURSIVE NatChars(_)
NatChars(n) ==
    IF n < 10 THEN <<Digits[n + 1]>>
    ELSE NatChars(n \div 10) \o <<Digits[(n % 10) + 1]>>

RECURSIVE ZeroFill(_, _)
ZeroFill(s, width) == IF Len(s) >= width THEN s ELSE ZeroFill(<<"0">> \o s, width)

\* f"{n:0{width}d}": the sign takes one place of the width
Pad(n, width) ==
    IF n < 0 THEN <<"-">> \o ZeroFill(NatChars(0 - n), width - 1)
    ELSE ZeroFill(NatChars(n), width)

\* _cache_file(airport_code, year, month, day, hour): the name under _CACHE_ROOT
CacheFile(airport_code, year, month, day, hour) ==
    LET stripped == Upper(Strip(airport_code))
        sanitized == IF stripped # <<>> THEN stripped
                     ELSE <<"U", "N", "K", "N", "O", "W", "N">>
    IN  sanitized \o <<"_">> \o Pad(year, 4) \o Pad(month, 2) \o Pad(day, 2)
            \o <<"_">> \o Pad(hour, 2) \o <<".", "j", "s", "o", "n">>

\* _record_to_dict(record)
RecordToDict(record) ==
    Dict([departure_airport |-> record.departure_airport,
          departure_time |-> Isoformat(record.departure_time),
          arrival_city |-> record.arrival_city,
          arrival_time |-> Isoformat(record.arrival_time),
          airline |-> record.airline,
          flight_number |-> record.flight_number,
          estimated_passengers |-> record.estimated_passengers])

\* _record_from_dict(data): the keyword arguments are evaluated in order
RecordFromDict(data) ==
    IF ~Has(data, "departure_airport") THEN Err("KeyError", "departure_airport")
    ELSE IF ~Has(data, "departure_time") THEN Err("KeyError", "departure_time")
    ELSE LET departure_time == FromIsoformat(data.d["departure_time"]) IN
    IF ~departure_time.ok THEN departure_time
    ELSE IF ~Has(data, "arrival_city") THEN Err("KeyError", "arrival_city")
    ELSE IF ~Has(data, "arrival_time") THEN Err("KeyError", "arrival_time")
    ELSE LET arrival_time == FromIsoformat(data.d["arrival_time"]) IN
    IF ~arrival_time.ok THEN arrival_time
    ELSE IF ~Has(data, "airline") THEN Err("KeyError", "airline")
    ELSE IF ~Has(data, "flight_number") THEN Err("KeyError", "flight_number")
    ELSE FlightRecord(
             [departure_airport |-> data.d["departure_airport"],
              departure_time |-> departure_time.val,
              arrival_city |-> data.d["arrival_city"],
              arrival_time |-> arrival_time.val,
              airline |-> data.d["airline"],
              flight_number |-> data.d["flight_number"],
              estimated_passengers |-> Get(data, "estimated_passengers")])

\* the loop of _load_from_cache over payload: KeyError and ValueError drop
\* the item, any other exception leaves the loop
RECURSIVE LoadItems(_, _)
LoadItems(payload, records) ==
    LET \* r is what _record_from_dict returned or raised
        Rebuilt(r) ==
            IF r.ok THEN LoadItems(Tail(payload), Append(records, r.val))
            ELSE IF r.err.type \in {"KeyError", "ValueError"}
                 THEN LoadItems(Tail(payload), records)
            ELSE r
    IN  IF payload = <<>> THEN Ok(records)
        ELSE IF ~IsDict(Head(payload)) THEN LoadItems(Tail(payload), records)
        ELSE Rebuilt(RecordFromDict(Head(payload)))

\* _load_from_cache(path): Ok(Null) is the return of None, Ok(List(records))
\* the return of a list; of what open and json.load raise, OSError and
\* JSONDecodeError are caught.
LoadFromCache(content) ==
    LET Records(r) == IF r.ok THEN Ok(List(r.val)) ELSE r IN
    CASE content.kind \in {"absent", "unreadable"} -> Ok(Null)
      [] content.kind = "undecodable" -> Err("UnicodeDecodeError", "utf-8")
      [] content.kind = "notjson" -> Ok(Null)
      [] OTHER ->
           IF ~IsList(content.doc) THEN Ok(Null)
           ELSE Records(LoadItems(content.doc.l, <<>>))

\* A str that the file's utf-8 encoding refuses: it holds a lone surrogate
\* (json.loads reads one from the escape \ud800), here the character "\\ud800".
Unencodable(v) == v.t = "str" /\ Contains(v.s, "\\ud800")

\* _store_to_cache(path, flights).  failure is where the file system refuses:
\* "mkdir" in _ensure_cache_dir, "open" in path.open("w") (the file stays as
\* it was), "write" inside json.dump (the file was truncated by open and holds
\* a prefix of the text, which is no JSON document), "none" nowhere.  With
\* ensure_ascii=False json.dump writes every str as it is, and the handle
\* raises UnicodeEncodeError, which is no OSError, on one it cannot encode.
StoreToCache(content, flights, failure) ==
    LET serialisable == [i \in 1..Len(flights) |-> RecordToDict(flights[i])] IN
    CASE failure = "mkdir" ->
           [file |-> content, out |-> Err("OSError", "mkdir"), io |-> <<"mkdir">>]
      [] failure = "open" ->
           [file |-> content, out |-> Err("OSError", "open"),
            io |-> <<"mkdir", "open_write">>]
      [] failure = "write" ->
           [file |-> [kind |-> "notjson"], out |-> Err("OSError", "write"),
            io |-> <<"mkdir", "open_write", "write">>]
      [] \E i \in 1..Len(flights) : \E k \in DOMAIN serialisable[i].d :
             Unencodable(serialisable[i].d[k]) ->
           [file |-> [kind |-> "notjson"], out |-> Err("UnicodeEncodeError", "encode"),
            io |-> <<"mkdir", "open_write", "write">>]
      [] OTHER ->
           [file |-> JsonFile(List(serialisable)), out |-> Ok(Null),
            io |-> <<"mkdir", "open_write", "write">>]

\* "if cached": an empty list is no hit
CacheHitTruthy(cached) == Truthy(cached.val)

\* "if cached is not None"
CacheHit(cached) == cached.val # Null

\* "except OSError: pass" around _store_to_cache
Swallowed(err) == err.type = "OSError"

\* fetch_departures(airport_code, year=, month=, day=, hour=, use_cache=) on a
\* cache file holding content.  The result is the file afterwards and the
\* record of the call: pre is the file before, io lists the file and network
\* operations in order, cached is what _load_from_cache gave (Idle when it
\* was not called), pipeline and http count the calls of
\* fetch_flightstats_departures and the requests sent, response is the answer
\* to the request, stored tells whether _store_to_cache ran ("skipped" when
\* not) and completed ("done", or where it failed), out is what the call
\* returns or raises.
FetchDeparturesCall(content, airport_code, year, month, day, hour, use_cache, response, failure) ==
    LET args == [airport_code |-> airport_code, year |-> year, month |-> month,
                 day |-> day, hour |-> hour, use_cache |-> use_cache]
        cache_path == CacheFile(airport_code, year, month, day, hour)
        tryCache == use_cache /\ Exists(content)
        ioCache == (IF use_cache THEN <<"exists">> ELSE <<>>)
                       \o (IF tryCache THEN <<"open_read">> ELSE <<>>)
        \* lines 92-93: cached is what _load_from_cache gave
        AtCache(cached) ==
            [args |-> args, path |-> cache_path, pre |-> content,
             cached |-> cached, io |-> ioCache, pipeline |-> 0, http |-> 0,
             response |-> Idle, stored |-> "skipped", out |-> cached]
        \* line 98: flights is what fetch_flightstats_departures gave
        Fetched(cached, flights) ==
            [AtCache(cached) EXCEPT
                !.io = ioCache \o [i \in 1..flights.http |-> "http_get"],
                !.pipeline = 1, !.http = flights.http,
                !.response = IF flights.http > 0 THEN response ELSE Idle,
                !.out = flights.out]
        \* lines 99-103: store is what _store_to_cache did
        Stored(fetched, flights, store) ==
            [file |-> store.file,
             rec |-> [fetched EXCEPT
                         !.io = fetched.io \o store.io,
                         !.stored = IF store.out.ok THEN "done" ELSE store.out.err.msg,
                         !.out = IF store.out.ok \/ Swallowed(store.out.err)
                                 THEN flights.out ELSE store.out]]
        Fetch(cached, flights) ==
            IF ~flights.out.ok THEN [file |-> content, rec |-> Fetched(cached, flights)]
            ELSE Stored(Fetched(cached, flights), flights,
                        StoreToCache(content, flights.out.val, failure))
        Lookup(cached) ==
            IF tryCache /\ ~cached.ok THEN [file |-> content, rec |-> AtCache(cached)]
            ELSE IF tryCache /\ CacheHit(cached)
            THEN [file |-> content, rec |-> [AtCache(cached) EXCEPT !.out = Ok(cached.val.l)]]
            ELSE Fetch(cached, FetchFlightstatsDepartures(year, month, day, hour,
                                                          airport_code, response))
    IN  Lookup(IF tryCache THEN LoadFromCache(content) ELSE Idle)

----------------------------------------------------------------------------
(* flights_api.py *)

\* dt + timedelta(minutes=n)
AddMinutes(dt, n) ==
    LET total == dt.hour * 60 + dt.minute + n
        moved == AddDays(dt, total \div 1440)
    IN  IF ~moved.ok THEN moved
        ELSE Ok([moved.val EXCEPT !.hour = (total % 1440) \div 60,
                                  !.minute = (total % 1440) % 60])

\* _build_mock_flight(base_time=, departure_airport=, departure_offset_minutes=,
\*                    arrival_city=, arrival_offset_minutes=, base_passengers=)
BuildMockFlight(base_time, departure_airport, departure_offset_minutes, arrival_city, arrival_offset_minutes, base_passengers) ==
    LET departure_time == AddMinutes(base_time, departure_offset_minutes)
        arrival_time == AddMinutes(base_time, arrival_offset_minutes)
    IN  IF ~departure_time.ok THEN departure_time
        ELSE IF ~arrival_time.ok THEN arrival_time
        ELSE FlightRecord([departure_airport |-> departure_airport,
                           departure_time |-> departure_time.val,
                           arrival_city |-> arrival_city,
                           arrival_time |-> arrival_time.val,
                           estimated_passengers |-> Num(base_passengers)])

\* get_aircraft_movements(airport_code, dt), dt naive
GetAircraftMovements(airport_code, dt) ==
    LET airport == Str(Upper(airport_code))
        a1 == BuildMockFlight(dt, Str(<<"S", "E", "A">>), -180, airport, -60, 140)
        a2 == BuildMockFlight(dt, Str(<<"D", "E", "N">>), -240, airport, -30, 160)
        d1 == BuildMockFlight(dt, airport, 30, Str(<<"B", "O", "S">>), 240, 150)
        d2 == BuildMockFlight(dt, airport, 75, Str(<<"M", "I", "A">>), 315, 170)
    IN  IF ~a1.ok THEN a1
        ELSE IF ~a2.ok THEN a2
        ELSE IF ~d1.ok THEN d1
        ELSE IF ~d2.ok THEN d2
        ELSE LET arrivals == <<a1.val, a2.val>>
                 departures == <<d1.val, d2.val>>
             IN  Ok([airport |-> airport,
                     timestamp |-> IsoStr([Isoformat(dt).iso EXCEPT !.tz = "Z"]),
                     training |-> [arrivals |-> SubSeq(arrivals, 1, 1),
                                   departures |-> SubSeq(departures, 1, 1)],
                     prediction |-> [arrivals |-> SubSeq(arrivals, 2, Len(arrivals)),
                                     departures |-> SubSeq(departures, 2, Len(departures))]])

----------------------------------------------------------------------------
(* Inputs *)

MaxFlights == 3     \* longest flights list of an upstream payload
MaxCached == 1      \* longest flights list fetched through the cache
MaxItems == 2       \* longest array in a cache file given to _load_from_cache

\* all sequences over S of length at most n
RECURSIVE SeqsUpTo(_, _)
SeqsUpTo(S, n) ==
    IF n = 0 THEN {<<>>}
    ELSE LET shorter == SeqsUpTo(S, n - 1)
         IN  shorter \cup {Append(s, x) : s \in {q \in shorter : Len(q) = n - 1}, x \in S}

AirportCodes == {<<"J", "F", "K">>, <<" ", "j", "f", "k">>, <<>>}
Years == {2025}
\* <<month, day, hour>>: the corners of the valid ranges, and one step outside
Queries ==
    {<<1, 1, 0>>, <<12, 31, 23>>, <<6, 15, 12>>, <<0, 1, 0>>, <<13, 1, 0>>,
     <<1, 0, 0>>, <<1, 32, 0>>, <<1, 1, -1>>, <<1, 1, 24>>, <<13, 32, 24>>}

SortTimes ==
    {Absent, Null, Num(5), EmptyStr, Str(<<"s", "o", "o", "n">>),
     IsoStr(IsoParts(739252, 23, 50, 0, 0, "Z")),
     IsoStr(IsoParts(739252, 23, 50, 0, -1, "")),
     IsoStr(IsoParts(739252, 10, 30, 15, 250000, "-05:00")),
     IsoStr(IsoParts(MaxOrdinal, 23, 50, 0, 0, "Z"))}

Time24Texts ==
    {<<"0", "0", ":", "1", "5">>, <<"2", "3", ":", "5", "5">>,
     <<"2", "3", ":", "5", "0">>, <<"1", "0", ":", "3", "0">>,
     <<"2", "5", ":", "0", "0">>, <<"1", "2", ":", "6", "0">>,
     <<"-", "1", ":", "0", "0">>, <<"a", "b", ":", "c", "d">>,
     <<"1", "2", "0", "0">>, <<>>, <<":">>, <<"1", "2", ":">>,
     <<"1", "2", ":", "3", "0", ":", "4", "5">>, <<" ", "7", ":", "0", "5">>,
     <<"7", ":", "5">>, <<"1", "_", "0", ":", "0", "0">>}

ArrivalTimes ==
    {Absent, Null, Str(<<"0", "0", ":", "1", "5">>), EmptyDict,
     Dict([time24 |-> Null]), Dict([time24 |-> Num(15)]),
     Dict([time24 |-> IsoStr(IsoParts(739252, 23, 55, 0, -1, ""))])}
        \cup {Dict([time24 |-> Str(s)]) : s \in Time24Texts}

AirportPayloads ==
    {Absent, Null, Str(<<"B", "O", "S">>),
     Dict([city |-> Str(<<"B", "o", "s", "t", "o", "n">>),
           name |-> Str(<<"L", "o", "g", "a", "n">>), fs |-> Str(<<"B", "O", "S">>)]),
     Dict([city |-> EmptyStr, name |-> Null, fs |-> Str(<<"B", "O", "S">>)]),
     Dict([city |-> Num(0)])}

CarrierPayloads ==
    {Absent,
     Dict([name |-> Str(<<"D", "e", "l", "t", "a">>), fs |-> Str(<<" ", "D", "L", " ">>),
           flightNumber |-> Str(<<"1", "2">>)]),
     Dict([fs |-> Str(<<"D", "L">>)]),
     Dict([flightNumber |-> Str(<<"1", "2", " ">>)]),
     Dict([name |-> Str(<<"D", "e", "l", "t", "a">>), fs |-> Null]),
     Dict([name |-> Null, fs |-> Str(<<" ">>), flightNumber |-> EmptyStr]),
     Dict([flightNumber |-> Num(12)])}

Urls == {Absent, Null, Str(<<"/", "d", "l", "/", "1", "2", "/">>), Str(<<"/">>)}

RawEntry(st, at, ap, cp, u) ==
    Dict([sortTime |-> st, arrivalTime |-> at, airport |-> ap, carrier |-> cp, url |-> u])

\* the flight objects given to _parse_flight_record: every sortTime with every
\* arrivalTime and carrier, and every airport, carrier and url with some of them
RawEntries ==
    {RawEntry(st, at, Dict([city |-> Str(<<"B", "o", "s", "t", "o", "n">>)]), cp, Absent) :
        st \in SortTimes, at \in ArrivalTimes, cp \in CarrierPayloads}
    \cup
    {RawEntry(st, at, ap, cp, u) :
        st \in {Absent, IsoStr(IsoParts(739252, 23, 50, 0, 0, "Z"))},
        at \in {Absent, Dict([time24 |-> Str(<<"0", "0", ":", "1", "5">>)])},
        ap \in AirportPayloads, cp \in CarrierPayloads, u \in Urls}

Flight(sortTime, time24, city) ==
    Dict([sortTime |-> sortTime, arrivalTime |-> Dict([time24 |-> Str(time24)]),
          airport |-> Dict([city |-> Str(city)]),
          carrier |-> Dict([name |-> Str(<<"D", "e", "l", "t", "a">>),
                            fs |-> Str(<<"D", "L">>),
                            flightNumber |-> Str(<<"1", "2">>)])])

FlightOvernight ==
    Flight(IsoStr(IsoParts(739252, 23, 50, 0, 0, "Z")), <<"0", "0", ":", "1", "5">>,
           <<"B", "o", "s", "t", "o", "n">>)
FlightSameDay ==
    Flight(IsoStr(IsoParts(739252, 10, 30, 15, 250000, "")), <<"1", "2", ":", "3", "0">>,
           <<"M", "i", "a", "m", "i">>)
FlightNoSortTime == Flight(Absent, <<"1", "2", ":", "3", "0">>, <<"M", "i", "a", "m", "i">>)
FlightBadHour ==
    Flight(IsoStr(IsoParts(739252, 10, 30, 0, -1, "")), <<"2", "5", ":", "0", "0">>,
           <<"M", "i", "a", "m", "i">>)
FlightSurrogate ==
    Flight(IsoStr(IsoParts(739252, 10, 30, 0, -1, "")), <<"1", "2", ":", "3", "0">>,
           <<"\\ud800">>)

\* the elements of the flights lists given to fetch_flightstats_departures
FetchEntries ==
    {Num(7), Null, FlightOvernight, FlightSameDay, FlightNoSortTime, FlightBadHour}

\* a payload that stops at the first n segments of _FLIGHTS_PATH, with leaf there
RECURSIVE Nested(_, _, _)
Nested(path, n, leaf) ==
    IF n = 0 THEN leaf
    ELSE Dict([k \in {path[1]} |-> Nested(Tail(path), n - 1, leaf)])

Page(json) == [net |-> "ok", html |-> [kind |-> "payload", json |-> json]]

FailingResponses ==
    {[net |-> "unreachable"], [net |-> "status"],
     [net |-> "ok", html |-> [kind |-> "nomarker"]],
     [net |-> "ok", html |-> [kind |-> "badjson"]],
     Page(Nested(_FLIGHTS_PATH, 5, Null)),
     Page(Nested(_FLIGHTS_PATH, 5, EmptyDict))}
        \cup {Page(Nested(_FLIGHTS_PATH, n, EmptyDict)) : n \in 0..4}
        \cup {Page(Nested(_FLIGHTS_PATH, 2, Str(<<"x">>)))}

FlightsPage(flights) == Page(Nested(_FLIGHTS_PATH, 5, List(flights)))

FetchResponses ==
    FailingResponses \cup {FlightsPage(l) : l \in SeqsUpTo(FetchEntries, MaxFlights)}

\* the elements of the arrays in the cache files given to _load_from_cache
StoredRecord(departure_time, arrival_city, arrival_time, estimated_passengers) ==
    Dict([departure_airport |-> Str(<<"J", "F", "K">>),
          departure_time |-> departure_time,
          arrival_city |-> arrival_city,
          arrival_time |-> arrival_time,
          airline |-> Str(<<"D", "e", "l", "t", "a">>),
          flight_number |-> Str(<<"D", "L", " ", "1", "2">>),
          estimated_passengers |-> estimated_passengers])

StoredGood ==
    StoredRecord(IsoStr(IsoParts(739252, 23, 50, 0, -1, "")),
                 Str(<<"B", "o", "s", "t", "o", "n">>),
                 IsoStr(IsoParts(739253, 0, 15, 0, -1, "")), Null)
StoredMicros ==
    StoredRecord(IsoStr(IsoParts(739252, 10, 30, 15, 250000, "")),
                 Str(<<"M", "i", "a", "m", "i">>),
                 IsoStr(IsoParts(739252, 12, 30, 0, -1, "")), Num(150))
StoredNoPassengers ==
    Dict([k \in DOMAIN StoredGood.d \ {"estimated_passengers"} |-> StoredGood.d[k]])
StoredNoAirline == Dict([StoredGood.d EXCEPT !.airline = Absent])
StoredNoArrival == Dict([StoredGood.d EXCEPT !.arrival_time = Absent])
StoredBadIso == Dict([StoredGood.d EXCEPT !.departure_time = Str(<<"s", "o", "o", "n">>)])
StoredNumTime == Dict([StoredGood.d EXCEPT !.departure_time = Num(5)])
StoredNullTime == Dict([StoredGood.d EXCEPT !.arrival_time = Null])
StoredNullCity == Dict([StoredGood.d EXCEPT !.arrival_city = Null])

StoredItems ==
    {StoredGood, StoredMicros, StoredNoPassengers, StoredNoAirline, StoredNoArrival,
     StoredBadIso, StoredNumTime, StoredNullTime, StoredNullCity,
     Num(5), Null, Str(<<"x">>), List(<<StoredGood>>), EmptyDict}

BrokenFiles ==
    {[kind |-> "unreadable"], [kind |-> "undecodable"], [kind |-> "notjson"],
     JsonFile(StoredGood), JsonFile(Null), JsonFile(Num(5)), JsonFile(Str(<<"x">>))}

\* what a cache file can hold when _load_from_cache opens it
CacheContents ==
    {NoFile} \cup BrokenFiles \cup {JsonFile(List(l)) : l \in SeqsUpTo(StoredItems, MaxItems)}

\* the arguments of fetch_departures, and what the cache directory may hold
\* before the first call
CacheAirports == {<<"J", "F", "K">>, <<" ", "j", "f", "k">>, <<>>}
CacheQueries == {<<1, 1, 0>>, <<12, 31, 23>>, <<13, 1, 0>>, <<1, 0, 0>>, <<1, 1, 24>>}
CachePaths ==
    {CacheFile(a, y, q[1], q[2], q[3]) : a \in CacheAirports, y \in Years, q \in CacheQueries}
CacheEntries == {Num(7), FlightOvernight, FlightSameDay, FlightSurrogate}
\* the upstream answers the pipeline fails on: no connection, an error status,
\* a page without the marker, a page whose blob is no JSON, a payload without
\* the "route" segment, a payload whose flights value is an object
CacheFailures ==
    {[net |-> "unreachable"], [net |-> "status"],
     [net |-> "ok", html |-> [kind |-> "nomarker"]],
     [net |-> "ok", html |-> [kind |-> "badjson"]],
     Page(Nested(_FLIGHTS_PATH, 3, EmptyDict)),
     Page(Nested(_FLIGHTS_PATH, 5, EmptyDict))}
CacheResponses ==
    CacheFailures \cup {FlightsPage(l) : l \in SeqsUpTo(CacheEntries, MaxCached)}
StoreFailures == {"none", "mkdir", "open", "write"}
FoundFiles ==
    {[kind |-> "unreadable"], [kind |-> "undecodable"], [kind |-> "notjson"],
     JsonFile(StoredGood), JsonFile(List(<<>>)), JsonFile(List(<<StoredGood>>)),
     JsonFile(List(<<StoredMicros, Num(5)>>)), JsonFile(List(<<StoredNumTime>>)),
     JsonFile(List(<<StoredBadIso, StoredNullCity>>))}
FoundPaths ==
    {CacheFile(<<"J", "F", "K">>, 2025, 1, 1, 0), CacheFile(<<"J", "F", "K">>, 2025, 13, 1, 0)}

\* the same for the sequences of calls: one departure window, asked for
\* under two spellings of the airport
SeqAirports == {<<"J", "F", "K">>, <<" ", "j", "f", "k">>}
SeqQueries == {<<1, 1, 0>>}
SeqPaths ==
    {CacheFile(a, y, q[1], q[2], q[3]) : a \in SeqAirports, y \in Years, q \in SeqQueries}
SeqEntries == {FlightSameDay}
SeqResponses ==
    {[net |-> "unreachable"]} \cup {FlightsPage(l) : l \in SeqsUpTo(SeqEntries, MaxCached)}
SeqFailures == {"none", "write"}
SeqFound ==
    {[kind |-> "notjson"], [kind |-> "undecodable"], JsonFile(List(<<StoredGood>>)),
     JsonFile(List(<<StoredNumTime>>))}

\* the reference times given to get_aircraft_movements
ReferenceTimes ==
    {Datetime(d, h, m, 0, us, "") :
        d \in {1, 739252, MaxOrdinal}, h \in {0, 2, 12, 23}, m \in {0, 29, 59},
        us \in {0, 250000}}

----------------------------------------------------------------------------
(* The cache in front of the scraper: calls of fetch_departures, one after *)
(* the other, on a cache directory that may already hold a file.           *)

MaxCalls == 2       \* longest sequence of fetch_departures calls

Quiet == /\ call = Idle /\ prev = Idle /\ ncalls = 0 /\ parsed = Idle /\ fs = Idle
         /\ loaded = Idle /\ mock = Idle

\* a cache directory that holds no file, or one file
Directories(paths, foundPaths, found) ==
    LET empty == [p \in paths |-> NoFile]
    IN  {empty} \cup {[empty EXCEPT ![p] = c] : p \in foundPaths, c \in found}

FetchDepartures(airport_code, year, month, day, hour, use_cache, response, failure) ==
    LET Called(cache_path, r) ==
            /\ files' = [files EXCEPT ![cache_path] = r.file]
            /\ call' = r.rec
            /\ prev' = call
            /\ ncalls' = ncalls + 1
            /\ UNCHANGED <<parsed, fs, loaded, mock>>
        On(cache_path) ==
            Called(cache_path,
                   FetchDeparturesCall(files[cache_path], airport_code, year, month, day,
                                       hour, use_cache, response, failure))
    IN  On(CacheFile(airport_code, year, month, day, hour))

\* Sequences of calls for one departure window.
Init == files \in Directories(SeqPaths, SeqPaths, SeqFound) /\ Quiet

Next ==
    /\ ncalls < MaxCalls
    /\ \E a \in SeqAirports, y \in Years, q \in SeqQueries, use_cache \in BOOLEAN,
          response \in SeqResponses, failure \in SeqFailures :
           FetchDepartures(a, y, q[1], q[2], q[3], use_cache, response, failure)

Spec == Init /\ [][Next]_vars

\* One call, over all the arguments, upstream answers and directories.
InitCall == files \in Directories(CachePaths, FoundPaths, FoundFiles) /\ Quiet

NextCall ==
    /\ ncalls = 0
    /\ \E a \in CacheAirports, y \in Years, q \in CacheQueries, use_cache \in BOOLEAN,
          response \in CacheResponses, failure \in StoreFailures :
           FetchDepartures(a, y, q[1], q[2], q[3], use_cache, response, failure)

SpecCall == InitCall /\ [][NextCall]_vars

----------------------------------------------------------------------------
(* The functions below the cache, each applied once to an input drawn from *)
(* the sets above.                                                         *)

InitPure == files = [p \in CachePaths |-> NoFile] /\ Quiet

\* _parse_flight_record(raw, departure_airport=...)
ParseStep(raw, departure_airport) ==
    /\ parsed = Idle
    /\ parsed' = [raw |-> raw, departure_airport |-> departure_airport,
                  out |-> ParseFlightRecord(raw, Str(departure_airport))]
    /\ UNCHANGED <<files, call, prev, ncalls, fs, loaded, mock>>

NextParse == \E raw \in RawEntries : ParseStep(raw, <<"J", "F", "K">>)

SpecParse == InitPure /\ [][NextParse]_vars

\* fetch_flightstats_departures(year=, month=, day=, hour=, airport=)
FetchStep(year, month, day, hour, airport, response) ==
    LET Called(r) ==
            /\ fs' = [year |-> year, month |-> month, day |-> day, hour |-> hour,
                      airport |-> airport, response |-> response, out |-> r.out,
                      http |-> r.http]
            /\ UNCHANGED <<files, call, prev, ncalls, parsed, loaded, mock>>
    IN  /\ fs = Idle
        /\ Called(FetchFlightstatsDepartures(year, month, day, hour, airport, response))

NextFetch ==
    \E y \in Years, q \in Queries, response \in FetchResponses :
        FetchStep(y, q[1], q[2], q[3], <<"J", "F", "K">>, response)

SpecFetch == InitPure /\ [][NextFetch]_vars

\* _load_from_cache(path)
LoadStep(content) ==
    /\ loaded = Idle
    /\ loaded' = [content |-> content, out |-> LoadFromCache(content)]
    /\ UNCHANGED <<files, call, prev, ncalls, parsed, fs, mock>>

NextLoad == \E content \in CacheContents : LoadStep(content)

SpecLoad == InitPure /\ [][NextLoad]_vars

\* get_aircraft_movements(airport_code, dt)
MovementsStep(airport_code, dt) ==
    /\ mock = Idle
    /\ mock' = [airport_code |-> airport_code, dt |-> dt,
                out |-> GetAircraftMovements(airport_code, dt)]
    /\ UNCHANGED <<files, call, prev, ncalls, parsed, fs, loaded>>

NextMovements ==
    \E airport_code \in AirportCodes \cup {<<"L", "A", "X">>, <<"l", "a", "x">>},
       dt \in ReferenceTimes :
        MovementsStep(airport_code, dt)

SpecMovements == InitPure /\ [][NextMovements]_vars

----------------------------------------------------------------------------
(* Properties *)

\* month, day and hour of r are in the ranges _validate_query accepts
InRange(r) == r.month \in 1..12 /\ r.day \in 1..31 /\ r.hour \in 0..23

\* out is one of the three errors of _validate_query
ValidationError(out) ==
    /\ ~out.ok
    /\ out.err.type = "ValueError"
    /\ out.err.msg \in {"month must be between 1 and 12", "day must be between 1 and 31",
                        "hour must be between 0 and 23"}

\* out lists val(i) for the i in S, in increasing order of i, and nothing else
IsSelection(out, S, val(_)) ==
    /\ Len(out) = Cardinality(S)
    /\ \A i \in S : out[Cardinality({j \in S : j <= i})] = val(i)

\* The first of two calls in a row with the same arguments and use_cache=True
\* found no cache file for the key.
TwoCallsFromNoFile ==
    /\ prev # Idle
    /\ call.args = prev.args
    /\ prev.args.use_cache
    /\ prev.pre = NoFile

\* C1, as stated: two calls in a row with identical arguments and
\* use_cache=True, starting without a cache file, return identical record
\* lists and send exactly one request upstream: the first call fetches and
\* writes the file, the second reads it without fetching.
C1_AsStated ==
    TwoCallsFromNoFile =>
        /\ prev.out.ok /\ call.out.ok /\ call.out.val = prev.out.val
        /\ prev.http + call.http = 1
        /\ prev.stored = "done"
        /\ call.pipeline = 0

\* C1, amended: the same, provided the first call returned normally and wrote
\* the file completely.  Then the second call sends no request, does nothing
\* but check and read the file, and returns the list the first call returned.
C1_Idempotent ==
    (TwoCallsFromNoFile /\ prev.out.ok /\ prev.stored = "done") =>
        /\ call.out.ok /\ call.out.val = prev.out.val
        /\ prev.http = 1 /\ call.http = 0 /\ call.pipeline = 0
        /\ call.io = <<"exists", "open_read">>
        /\ call.pre.kind = "json" /\ files[call.path] = call.pre

C1_Witness ==
    /\ TwoCallsFromNoFile /\ prev.out.ok /\ prev.stored = "done"
    /\ prev.out.val # <<>> /\ call.out = prev.out /\ call.http = 0

\* C5, as stated: a cache file that exists never goes away, and its content
\* changes only in a call for its key made with use_cache=False.
C5_AsStated ==
    [][\A p \in DOMAIN files :
           Exists(files[p]) =>
               /\ Exists(files'[p])
               /\ (files'[p] # files[p] => call'.path = p /\ ~call'.args.use_cache)]_vars

\* C5, amended: a cache file that exists never goes away, and its content
\* changes only in a call for its key that reaches _store_to_cache: one made
\* with use_cache=False, or one made with use_cache=True for which
\* _load_from_cache returned None.  No call with use_cache=True changes a file
\* that loads.
C5_Lifecycle ==
    [][\A p \in DOMAIN files :
           Exists(files[p]) =>
               /\ Exists(files'[p])
               /\ (files'[p] # files[p] =>
                       /\ call'.path = p
                       /\ call'.stored # "skipped"
                       /\ (call'.args.use_cache => call'.cached = Ok(Null)))]_vars

C5_Witness ==
    /\ call # Idle /\ call.args.use_cache
    /\ Exists(call.pre) /\ files[call.path] # call.pre
    /\ files[call.path].kind = "json"

\* C2, as stated: fetch_departures never raises because of the cache: whatever
\* the cache file holds and whatever fails while persisting, the call returns,
\* or it raises what the fetch pipeline raised.
C2_NeverRaisesForCache ==
    call # Idle => (call.out.ok \/ (call.pipeline = 1 /\ call.stored = "skipped"))

\* C3, as stated: a query out of range raises the validation error before any
\* I/O (no existence check or read of the cache file, no request); a query in
\* range passes validation.
C3_AsStated ==
    call # Idle =>
        IF InRange(call.args) THEN ~ValidationError(call.out)
        ELSE ValidationError(call.out) /\ call.io = <<>>

\* C3, amended: a query out of range sends no request and writes no file; the
\* only I/O of the call is the existence check of the cache file and, when it
\* exists, its read, both made with use_cache=True before validation.  The
\* call raises the validation error unless that file loads, in which case its
\* records are returned unvalidated.  A query in range passes validation.
C3_Validation ==
    call # Idle =>
        IF InRange(call.args) THEN ~ValidationError(call.out)
        ELSE /\ call.http = 0
             /\ \A i \in DOMAIN call.io : call.io[i] \in {"exists", "open_read"}
             /\ files[call.path] = call.pre
             /\ (call.pipeline = 1 => ValidationError(call.out))
             /\ (call.pipeline = 0 =>
                     call.args.use_cache /\ Exists(call.pre) /\ call.cached # Ok(Null))

C3_Witness ==
    /\ call # Idle /\ call.args.month = 13
    /\ call.io = <<"exists", "open_read">> /\ ValidationError(call.out)

\* what the fetch pipeline raises on a query or an upstream answer it fails on
PipelineError(c) ==
    IF ~InRange(c.args)
    THEN IF c.args.month \notin 1..12 THEN Err("ValueError", "month must be between 1 and 12")
         ELSE IF c.args.day \notin 1..31 THEN Err("ValueError", "day must be between 1 and 31")
         ELSE Err("ValueError", "hour must be between 0 and 23")
    ELSE IF c.response = [net |-> "unreachable"]
         THEN Err("NetworkError", "Unable to reach FlightStats")
    ELSE IF c.response = [net |-> "status"]
         THEN Err("NetworkError", "request failed with status")
    ELSE IF c.response.html.kind = "nomarker"
         THEN Err("ValueError", "Could not locate FlightStats payload")
    ELSE IF c.response.html.kind = "badjson" THEN Err("JSONDecodeError", "embedded payload")
    ELSE IF c.response = Page(Nested(_FLIGHTS_PATH, 3, EmptyDict)) THEN Err("KeyError", "route")
    ELSE Err("TypeError", "Unexpected flights payload")

\* C4: when the fetch pipeline fails inside a fetch_departures call (on the
\* query, the network, the marker, the embedded JSON, a segment of the key
\* path or the type of the flights value), the call raises that error as it
\* is, after one run of the pipeline and at most one request (none for a
\* query out of range), and the cache file is as it was before the call.
C4_FetchFailure ==
    (/\ call # Idle /\ call.pipeline = 1
     /\ (~InRange(call.args) \/ call.response \in CacheFailures)) =>
        /\ call.out = PipelineError(call)
        /\ call.http = (IF InRange(call.args) THEN 1 ELSE 0)
        /\ Cardinality({i \in DOMAIN call.io : call.io[i] = "http_get"}) = call.http
        /\ \A i \in DOMAIN call.io : call.io[i] \in {"exists", "open_read", "http_get"}
        /\ call.stored = "skipped"
        /\ files[call.path] = call.pre

C4_Witness ==
    /\ call # Idle /\ call.pipeline = 1 /\ Exists(call.pre)
    /\ call.response = Page(Nested(_FLIGHTS_PATH, 3, EmptyDict))
    /\ ~call.out.ok /\ call.out.err.type = "KeyError"

\* C6, as stated: _load_from_cache of a file holding a JSON array returns, in
\* stored order, the records of the elements that are objects and reconstruct,
\* dropping every other element without failing; for a file that holds
\* anything else, or cannot be opened or parsed, it returns None (a miss).
C6_TolerantLoad ==
    loaded # Idle =>
        /\ loaded.out.ok
        /\ IF loaded.content.kind = "json" /\ IsList(loaded.content.doc)
           THEN LET items == loaded.content.doc.l
                    kept == {i \in DOMAIN items :
                                IsDict(items[i]) /\ RecordFromDict(items[i]).ok}
                IN  /\ IsList(loaded.out.val)
                    /\ IsSelection(loaded.out.val.l, kept,
                                   LAMBDA i : RecordFromDict(items[i]).val)
           ELSE loaded.out.val = Null

\* C7, as stated: in every record fetch_departures returns, parsed or loaded,
\* no field but estimated_passengers is None.
C7_FieldsNeverNull ==
    (call # Idle /\ call.out.ok) =>
        \A i \in DOMAIN call.out.val : \A f \in RequiredFields : call.out.val[i][f] # Null

\* the flights list of an upstream answer whose payload has one
HasFlightsList(response) ==
    /\ response.net = "ok" /\ response.html.kind = "payload"
    /\ WalkPath(response.html.json, _FLIGHTS_PATH).ok
    /\ IsList(WalkPath(response.html.json, _FLIGHTS_PATH).val)
FlightsOf(response) == WalkPath(response.html.json, _FLIGHTS_PATH).val.l

\* C8: for every flights list fetch_flightstats_departures returns normally:
\* entries that are not objects and entries whose parsing raises are skipped,
\* and the result is the records of the other entries, one each, in the order
\* of the list.
C8_EntrySkipPolicy ==
    (fs # Idle /\ InRange(fs) /\ HasFlightsList(fs.response)) =>
        LET flights == FlightsOf(fs.response)
            kept == {i \in DOMAIN flights :
                        IsDict(flights[i]) /\ ParseFlightRecord(flights[i], Str(fs.airport)).ok}
        IN  /\ fs.out.ok
            /\ IsSelection(fs.out.val, kept,
                           LAMBDA i : ParseFlightRecord(flights[i], Str(fs.airport)).val)

C8_Witness ==
    /\ fs # Idle
    /\ fs.response = FlightsPage(<<FlightOvernight, FlightNoSortTime, FlightSameDay>>)
    /\ fs.out.ok /\ Len(fs.out.val) = 2

\* C9, as stated: get_aircraft_movements returns a structure whose airport is
\* the upper-cased code and whose training and prediction datasets hold one
\* arrival and one departure each.
C9_StructuredMovements ==
    mock # Idle =>
        /\ mock.out.ok
        /\ mock.out.val.airport = Str(Upper(mock.airport_code))
        /\ Len(mock.out.val.training.arrivals) = 1
        /\ Len(mock.out.val.training.departures) = 1
        /\ Len(mock.out.val.prediction.arrivals) = 1
        /\ Len(mock.out.val.prediction.departures) = 1

\* the arrival info of raw is absent or no mapping, or its time24 is absent,
\* no text, a text without two parts around a colon, a text whose hour or
\* minute part is no number, or one whose hour or minute is out of range
ArrivalMalformed(raw) ==
    LET info == Get(raw, "arrivalTime")
        time_24 == Get(info, "time24")
    IN  \/ ~IsDict(info)
        \/ time_24.t # "str"
        \/ ~Contains(time_24.s, ":")
        \/ LET parts == Split(time_24.s, ":")
               hour == PyInt(parts[1])
               minute == PyInt(parts[2])
           IN  \/ ~hour.ok \/ ~minute.ok
               \/ hour.val \notin 0..23 \/ minute.val \notin 0..59

\* C10, as stated: an entry with a valid sortTime whose arrival info is absent
\* or malformed (the rest of it being well-formed: it parses without its
\* arrival info) still makes a record, whose arrival time is its departure time.
C10_ArrivalDefaults ==
    (/\ parsed # Idle
     /\ ArrivalMalformed(parsed.raw)
     /\ ParseFlightRecord(Dict([parsed.raw.d EXCEPT !.arrivalTime = Absent]),
                          Str(parsed.departure_airport)).ok) =>
        /\ parsed.out.ok
        /\ parsed.out.val.arrival_time = parsed.out.val.departure_time

\* s reads "HH:MM": two digits, a colon, two digits, hour under 24, minute under 60
IsTime24(s) ==
    /\ Len(s) = 5 /\ s[3] = ":"
    /\ \A i \in {1, 2, 4, 5} : IsDigit(s[i])
    /\ 10 * DigitVal(s[1]) + DigitVal(s[2]) < 24
    /\ 10 * DigitVal(s[4]) + DigitVal(s[5]) < 60

\* the entry has a valid sortTime and a well-formed time24, and the rest of it
\* is well-formed (it parses without its arrival info)
ArrivalWellFormed(raw, departure_airport) ==
    /\ IsDict(Get(raw, "arrivalTime"))
    /\ Get(Get(raw, "arrivalTime"), "time24").t = "str"
    /\ IsTime24(Get(Get(raw, "arrivalTime"), "time24").s)
    /\ ParseFlightRecord(Dict([raw.d EXCEPT !.arrivalTime = Absent]), Str(departure_airport)).ok

\* seconds since midnight
SecondOfDay(dt) == (dt.hour * 60 + dt.minute) * 60 + dt.second

\* a is strictly earlier in its day than b in its own
EarlierInDay(a, b) ==
    \/ SecondOfDay(a) < SecondOfDay(b)
    \/ SecondOfDay(a) = SecondOfDay(b) /\ a.microsecond < b.microsecond

\* the departure date with the hour and minute of s, seconds and microseconds zeroed
SameDayArrival(departure, s) ==
    [departure EXCEPT !.hour = 10 * DigitVal(s[1]) + DigitVal(s[2]),
                      !.minute = 10 * DigitVal(s[4]) + DigitVal(s[5]),
                      !.second = 0, !.microsecond = 0]

\* record is the parsed entry, departure its departure time, s its time24:
\* the arrival time is the same-day value, one day later when that value is
\* strictly earlier than the departure; it is not earlier than the departure
\* and at most one day after it
RolledArrival(record, departure, s) ==
    LET sameDay == SameDayArrival(departure, s)
        arrival == record.arrival_time
    IN  /\ record.departure_time = departure
        /\ arrival = IF EarlierInDay(sameDay, departure)
                     THEN [sameDay EXCEPT !.ord = departure.ord + 1]
                     ELSE sameDay
        /\ \/ arrival.ord = departure.ord /\ ~EarlierInDay(arrival, departure)
           \/ arrival.ord = departure.ord + 1 /\ ~EarlierInDay(departure, arrival)

\* C11, as stated: for every departure time and every well-formed time24
\* "HH:MM" the entry makes a record whose arrival time is the departure date
\* with hour and minute replaced and seconds and microseconds zeroed, one day
\* later when that value is strictly earlier than the departure time; so it is
\* never earlier than the departure time and at most one day after it.
C11_AsStated ==
    (parsed # Idle /\ ArrivalWellFormed(parsed.raw, parsed.departure_airport)) =>
        /\ parsed.out.ok
        /\ RolledArrival(parsed.out.val, ParseSortTime(Get(parsed.raw, "sortTime")).val,
                         Get(Get(parsed.raw, "arrivalTime"), "time24").s)

\* C11, amended: the same, for every departure time but those of the last
\* day of the calendar (9999-12-31) whose same-day value is strictly earlier
\* than the departure: there the day after does not exist, the addition
\* raises OverflowError and the entry makes no record.
C11_Rollover ==
    (parsed # Idle /\ ArrivalWellFormed(parsed.raw, parsed.departure_airport)) =>
        LET departure == ParseSortTime(Get(parsed.raw, "sortTime")).val
            s == Get(Get(parsed.raw, "arrivalTime"), "time24").s
        IN  IF departure.ord = MaxOrdinal /\ EarlierInDay(SameDayArrival(departure, s), departure)
            THEN ~parsed.out.ok /\ parsed.out.err.type = "OverflowError"
            ELSE parsed.out.ok /\ RolledArrival(parsed.out.val, departure, s)

C11_Witness ==
    /\ parsed # Idle /\ ArrivalWellFormed(parsed.raw, parsed.departure_airport)
    /\ parsed.out.ok
    /\ parsed.out.val.departure_time.hour = 23 /\ parsed.out.val.departure_time.minute = 50
    /\ parsed.out.val.arrival_time.ord = parsed.out.val.departure_time.ord + 1
    /\ parsed.out.val.arrival_time.hour = 0 /\ parsed.out.val.arrival_time.minute = 15

====
